---- MODULE Spec2Model ----
(***************************************************************************)
(* Model of sales_dashboard.py: one Streamlit script run (a "cycle") is    *)
(* the loader, the sidebar filter pipeline that repeatedly reassigns       *)
(* df_filtered, and the KPI / chart section.  One action per script step,  *)
(* in statement order.  Rows are identified by their index in df, so a     *)
(* view is a set of row indices.  Currency and ratio columns are modelled  *)
(* in integer units (sales and profit in currency units, discount in       *)
(* hundredths); every row carries a value in every non-date column.        *)
(***************************************************************************)
EXTENDS Integers, Sequences, FiniteSets, TLC

\* ---------------------------------------------------------------- bounds
\* Largest number of rows in the CSV file.
MaxRows == 3
\* Largest number of sidebar widgets the user has moved off their default
\* in one script run.
MaxEdits == 2
\* Number of distinct states in the frame of the top-N specification.
NumTopStates == 22

\* ------------------------------------------------------------- constants
\* pd.to_datetime(errors='coerce') turns an unparseable cell into NaT.
NaT == 0
\* sales_by_state.head(20)
TopN == 20
\* step= arguments of the four numeric sliders (discount in hundredths).
SalesStep == 10
QuantityStep == 1
DiscountStep == 1
ProfitStep == 1

\* Dates are encoded month*100 + day, so integer order is calendar order.
Calendar == {101, 102, 201}
MonthOf(d) == d \div 100

\* ------------------------------------------------------------ input rows
Row(od, sd, sm, sg, rg, stt, ct, cat, sub, sa, q, di, p) ==
    [order_date |-> od, ship_date |-> sd, ship_mode |-> sm, segment |-> sg,
     region |-> rg, state |-> stt, city |-> ct, category |-> cat,
     sub_category |-> sub, sales |-> sa, quantity |-> q, discount |-> di,
     profit |-> p]

\* The rows a CSV file is assembled from; the last one has an Order Date
\* cell (199) that is no calendar date.
RowPool ==
    << Row(101, 102, "Standard", "Consumer", "East", "NY", "NYC",
           "Furniture", "Chairs", 30, 2, 0, 1),
       Row(102, 201, "First", "Corporate", "West", "CA", "LA",
           "Furniture", "Tables", 20, 1, 1, -1),
       Row(201, 201, "Standard", "Consumer", "East", "NY", "Buffalo",
           "Technology", "Phones", 10, 1, 0, 0),
       Row(199, 201, "Standard", "Consumer", "West", "CA", "LA",
           "Technology", "Phones", 20, 2, 0, 1) >>

\* Index sequences in pool order (rows may repeat).
RECURSIVE Picks(_, _)
Picks(n, lo) ==
    IF n = 0 THEN { <<>> }
    ELSE UNION { { <<k>> \o t : t \in Picks(n - 1, k) } : k \in lo..Len(RowPool) }

CsvFiles ==
    { [kind |-> "csv", rows |-> [i \in 1..Len(p) |-> RowPool[p[i]]]] :
        p \in UNION { Picks(n, 1) : n \in 0..MaxRows } }

Sources ==
    CsvFiles \cup { [kind |-> "missing", rows |-> <<>>],
                    [kind |-> "malformed", rows |-> <<>>] }

\* ---------------------------------------------------------------- state
VARIABLES
    source,                    \* "Sample - Superstore.csv" on disk
    loaded,                    \* "pending" | "None" | "frame": what load_data returned
    df,                        \* the loaded frame, a sequence of rows
    df_filtered,               \* the working view: set of row indices of df
    pc,                        \* position in the script
    sel,                       \* values returned by the sidebar widgets
    available_sub_categories,  \* options of the sub-category multiselect
    available_cities,          \* options of the city multiselect
    messages,                  \* st.error / st.warning texts emitted this run
    computed,                  \* names of KPIs and group-bys computed this run
    kpi,                       \* total_sales, total_profit, total_quantity
    charts,                    \* chart inputs: sequences of [key, value]
    edits                      \* widgets moved off their default this run

vars == << source, loaded, df, df_filtered, pc, sel, available_sub_categories,
           available_cities, messages, computed, kpi, charts, edits >>

\* --------------------------------------------------------------- helpers
SetMin(S) == CHOOSE x \in S : \A y \in S : x <= y
SetMax(S) == CHOOSE x \in S : \A y \in S : x >= y

\* df[col].unique() over the rows of a view
Unique(D, rows, col) == { D[i][col] : i \in rows }

\* view[view[col].isin(selected)]
Isin(D, rows, col, selected) == { i \in rows : D[i][col] \in selected }

\* The range mask with an exclusive upper bound.
BetweenExclusive(D, rows, col, lo, hi) ==
    { i \in rows : D[i][col] >= lo /\ D[i][col] < hi }

\* view[(view[col] >= lo) & (view[col] <= hi)]
Between(D, rows, col, lo, hi) ==
    { i \in rows : D[i][col] >= lo /\ D[i][col] <= hi }

\* `if selected: view = view[view[col].isin(selected)]`
FilterIfSelected(D, rows, col, selected) ==
    IF selected # {} THEN Isin(D, rows, col, selected) ELSE rows

AllRows(D) == DOMAIN D

\* df[col].min(), df[col].max() over the full frame
ColMin(D, col) == SetMin(Unique(D, AllRows(D), col))
ColMax(D, col) == SetMax(Unique(D, AllRows(D), col))

\* Values a range slider can return: the default (min, max), or any pair
\* lo <= hi of positions min + k*step inside [min, max].
SliderGrid(lo, hi, step) == { lo + k * step : k \in 0..((hi - lo) \div step) }
SliderRanges(lo, hi, step) ==
    { <<lo, hi>> } \cup
    { r \in SliderGrid(lo, hi, step) \X SliderGrid(lo, hi, step) : r[1] <= r[2] }

DateRanges(lo, hi) ==
    { r \in Calendar \X Calendar : lo <= r[1] /\ r[1] <= r[2] /\ r[2] <= hi }

\* 0 when the widget returned its default, 1 otherwise
Moved(value, default) == IF value = default THEN 0 ELSE 1

\* series.sum()
RECURSIVE SumCol(_, _, _)
SumCol(D, rows, col) ==
    IF rows = {} THEN 0
    ELSE LET i == CHOOSE x \in rows : TRUE
         IN D[i][col] + SumCol(D, rows \ {i}, col)

\* ---------------------------------------------------------------- loader
\* pd.to_datetime(cell, errors='coerce')
ToDatetime(cell) == IF cell \in Calendar THEN cell ELSE NaT

ParseDates(rows) ==
    [i \in 1..Len(rows) |->
        [rows[i] EXCEPT !.order_date = ToDatetime(rows[i].order_date),
                        !.ship_date = ToDatetime(rows[i].ship_date)]]

HasDates(r) == r.order_date # NaT /\ r.ship_date # NaT

\* df.dropna(subset=['Order Date', 'Ship Date'])
DropNa(rows) == SelectSeq(rows, HasDates)

NoSel ==
    [selected_dates |-> <<0, 0>>, selected_regions |-> {},
     selected_categories |-> {}, selected_sub_categories |-> {},
     selected_segments |-> {}, selected_ship_modes |-> {},
     selected_states |-> {}, selected_cities |-> {},
     selected_sales |-> <<0, 0>>, selected_quantity |-> <<0, 0>>,
     selected_discount |-> <<0, 0>>, selected_profit |-> <<0, 0>>]

NoKpi == [total_sales |-> 0, total_profit |-> 0, total_quantity |-> 0]

NoCharts ==
    [sales_over_time |-> <<>>, sales_by_category |-> <<>>,
     profit_by_sub_category |-> <<>>, sales_by_region |-> {},
     sales_by_segment |-> {}, sales_by_state |-> <<>>]

ErrLoad == "error: Error loading data"
WarnEmptyDataset == "warning: The loaded dataset is empty"
WarnSelectCategory == "sidebar warning: Please select at least one Category"
WarnNoSubCategories == "sidebar warning: No Sub-Categories selected"
WarnSelectState == "sidebar warning: Please select at least one State"
WarnNoCities == "sidebar warning: No Cities selected"
WarnNoData == "warning: No data available for the selected filters"

Init ==
    /\ source \in Sources
    /\ loaded = "pending"
    /\ df = <<>>
    /\ df_filtered = {}
    /\ pc = "load"
    /\ sel = NoSel
    /\ available_sub_categories = {}
    /\ available_cities = {}
    /\ messages = {}
    /\ computed = {}
    /\ kpi = NoKpi
    /\ charts = NoCharts
    /\ edits = 0

\* load_data(): FileNotFoundError returns None without a message; any other
\* exception reports st.error and returns None.
LoadData ==
    /\ pc = "load"
    /\ \/ /\ source.kind = "missing"
          /\ loaded' = "None"
          /\ df' = <<>>
          /\ messages' = messages
       \/ /\ source.kind = "malformed"
          /\ loaded' = "None"
          /\ df' = <<>>
          /\ messages' = messages \cup {ErrLoad}
       \/ /\ source.kind = "csv"
          /\ loaded' = "frame"
          /\ df' = DropNa(ParseDates(source.rows))
          /\ messages' = messages
    /\ pc' = "check"
    /\ UNCHANGED << source, df_filtered, sel, available_sub_categories,
                    available_cities, computed, kpi, charts, edits >>

\* if df is None: st.stop()   elif df.empty: st.warning(...); st.stop()
CheckLoaded ==
    /\ pc = "check"
    /\ \/ /\ loaded = "None"
          /\ messages' = messages
          /\ pc' = "stopped"
       \/ /\ loaded = "frame" /\ Len(df) = 0
          /\ messages' = messages \cup {WarnEmptyDataset}
          /\ pc' = "stopped"
       \/ /\ loaded = "frame" /\ Len(df) > 0
          /\ messages' = messages
          /\ pc' = "dates"
    /\ UNCHANGED << source, loaded, df, df_filtered, sel,
                    available_sub_categories, available_cities, computed,
                    kpi, charts, edits >>

\* ------------------------------------------------------- sidebar filters
\* df_filtered = df.copy(); the date slider; the order-date mask
DateFilter ==
    /\ pc = "dates"
    /\ LET min_date == ColMin(df, "order_date")
           max_date == ColMax(df, "order_date")
       IN \E selected_dates \in DateRanges(min_date, max_date) :
            /\ edits + Moved(selected_dates, <<min_date, max_date>>) <= MaxEdits
            /\ edits' = edits + Moved(selected_dates, <<min_date, max_date>>)
            /\ sel' = [sel EXCEPT !.selected_dates = selected_dates]
            /\ df_filtered' = Between(df, AllRows(df), "order_date",
                                      selected_dates[1], selected_dates[2])
    /\ pc' = "regions"
    /\ UNCHANGED << source, loaded, df, available_sub_categories,
                    available_cities, messages, computed, kpi, charts >>

\* A multiselect over `options` (default: all of them) followed by
\* `if selected: df_filtered = df_filtered[df_filtered[col].isin(selected)]`
Multiselect(field, col, options) ==
    \E selected \in SUBSET options :
        /\ edits + Moved(selected, options) <= MaxEdits
        /\ edits' = edits + Moved(selected, options)
        /\ sel' = [sel EXCEPT ![field] = selected]
        /\ df_filtered' = FilterIfSelected(df, df_filtered, col, selected)

RegionFilter ==
    /\ pc = "regions"
    /\ Multiselect("selected_regions", "region", Unique(df, AllRows(df), "region"))
    /\ pc' = "categories"
    /\ UNCHANGED << source, loaded, df, available_sub_categories,
                    available_cities, messages, computed, kpi, charts >>

CategoryFilter ==
    /\ pc = "categories"
    /\ Multiselect("selected_categories", "category",
                   Unique(df, AllRows(df), "category"))
    /\ pc' = "sub_categories"
    /\ UNCHANGED << source, loaded, df, available_sub_categories,
                    available_cities, messages, computed, kpi, charts >>

\* The elif chain after a dependent multiselect: which sidebar warning, if
\* any, is shown.
DependentWarning(selected, governing, view, options, warnGoverning, warnNone) ==
    IF selected # {} THEN {}
    ELSE IF governing = {} /\ view = {} THEN {warnGoverning}
    ELSE IF options # {} THEN {warnNone}
    ELSE {}

SubCategoryFilter ==
    /\ pc = "sub_categories"
    /\ available_sub_categories' = Unique(df, df_filtered, "sub_category")
    /\ Multiselect("selected_sub_categories", "sub_category",
                   Unique(df, df_filtered, "sub_category"))
    /\ messages' = messages \cup
          DependentWarning(sel'.selected_sub_categories, sel.selected_categories,
                           df_filtered, available_sub_categories',
                           WarnSelectCategory, WarnNoSubCategories)
    /\ pc' = "segments"
    /\ UNCHANGED << source, loaded, df, available_cities, computed, kpi, charts >>

SegmentFilter ==
    /\ pc = "segments"
    /\ Multiselect("selected_segments", "segment", Unique(df, AllRows(df), "segment"))
    /\ pc' = "ship_modes"
    /\ UNCHANGED << source, loaded, df, available_sub_categories,
                    available_cities, messages, computed, kpi, charts >>

ShipModeFilter ==
    /\ pc = "ship_modes"
    /\ Multiselect("selected_ship_modes", "ship_mode",
                   Unique(df, AllRows(df), "ship_mode"))
    /\ pc' = "states"
    /\ UNCHANGED << source, loaded, df, available_sub_categories,
                    available_cities, messages, computed, kpi, charts >>

StateFilter ==
    /\ pc = "states"
    /\ Multiselect("selected_states", "state", Unique(df, AllRows(df), "state"))
    /\ pc' = "cities"
    /\ UNCHANGED << source, loaded, df, available_sub_categories,
                    available_cities, messages, computed, kpi, charts >>

CityFilter ==
    /\ pc = "cities"
    /\ available_cities' = Unique(df, df_filtered, "city")
    /\ Multiselect("selected_cities", "city", Unique(df, df_filtered, "city"))
    /\ messages' = messages \cup
          DependentWarning(sel'.selected_cities, sel.selected_states,
                           df_filtered, available_cities',
                           WarnSelectState, WarnNoCities)
    /\ pc' = "sales"
    /\ UNCHANGED << source, loaded, df, available_sub_categories, computed,
                    kpi, charts >>

\* A range slider over the full frame's [min, max] of `col`, then the mask
\* (df_filtered[col] >= lo) & (df_filtered[col] <= hi)
RangeSlider(field, col, step) ==
    LET lo_overall == ColMin(df, col)
        hi_overall == ColMax(df, col)
    IN \E selected \in SliderRanges(lo_overall, hi_overall, step) :
         /\ edits + Moved(selected, <<lo_overall, hi_overall>>) <= MaxEdits
         /\ edits' = edits + Moved(selected, <<lo_overall, hi_overall>>)
         /\ sel' = [sel EXCEPT ![field] = selected]
         /\ df_filtered' = Between(df, df_filtered, col, selected[1], selected[2])

SalesFilter ==
    /\ pc = "sales"
    /\ RangeSlider("selected_sales", "sales", SalesStep)
    /\ pc' = "quantity"
    /\ UNCHANGED << source, loaded, df, available_sub_categories,
                    available_cities, messages, computed, kpi, charts >>

QuantityFilter ==
    /\ pc = "quantity"
    /\ RangeSlider("selected_quantity", "quantity", QuantityStep)
    /\ pc' = "discount"
    /\ UNCHANGED << source, loaded, df, available_sub_categories,
                    available_cities, messages, computed, kpi, charts >>

DiscountFilter ==
    /\ pc = "discount"
    /\ RangeSlider("selected_discount", "discount", DiscountStep)
    /\ pc' = "profit"
    /\ UNCHANGED << source, loaded, df, available_sub_categories,
                    available_cities, messages, computed, kpi, charts >>

ProfitFilter ==
    /\ pc = "profit"
    /\ RangeSlider("selected_profit", "profit", ProfitStep)
    /\ pc' = "kpis"
    /\ UNCHANGED << source, loaded, df, available_sub_categories,
                    available_cities, messages, computed, kpi, charts >>

\* ------------------------------------------------------------ aggregator
\* view.groupby(keycol)[valcol].sum().reset_index(): one entry per key
GroupSum(D, rows, keycol, valcol) ==
    { [key |-> k, value |-> SumCol(D, Isin(D, rows, keycol, {k}), valcol)] :
        k \in Unique(D, rows, keycol) }

\* sort_values without ascending=False.
RECURSIVE SortValuesAsc(_)
SortValuesAsc(entries) ==
    IF entries = {} THEN { <<>> }
    ELSE LET bottom == SetMin({ e.value : e \in entries })
         IN UNION { { <<e>> \o t : t \in SortValuesAsc(entries \ {e}) } :
                      e \in { x \in entries : x.value = bottom } }

\* .sort_values(by=value, ascending=False): every ordering of the entries
\* with non-increasing values (the order among equal values is not fixed).
RECURSIVE SortValuesDesc(_)
SortValuesDesc(entries) ==
    IF entries = {} THEN { <<>> }
    ELSE LET top == SetMax({ e.value : e \in entries })
         IN UNION { { <<e>> \o t : t \in SortValuesDesc(entries \ {e}) } :
                      e \in { x \in entries : x.value = top } }

\* frame.head(n)
HeadRows(s, n) == SubSeq(s, 1, IF Len(s) < n THEN Len(s) ELSE n)

\* view.groupby(pd.Grouper(key='Order Date', freq='M'))['Sales'].sum():
\* one bin per calendar month from the first to the last month of the view
SalesOverTime(D, rows) ==
    LET months == { MonthOf(D[i].order_date) : i \in rows }
        first == SetMin(months)
        last == SetMax(months)
    IN [k \in 1..(last - first + 1) |->
          [key |-> first + k - 1,
           value |-> SumCol(D, { i \in rows : MonthOf(D[i].order_date) = first + k - 1 },
                            "sales")]]

\* The category group-by taken over the full frame instead of the view.
SalesByCategoryWholeFrame(D, rows) == GroupSum(D, AllRows(D), "category", "sales")

SalesByCategory(D, rows) == GroupSum(D, rows, "category", "sales")
ProfitBySubCategory(D, rows) == GroupSum(D, rows, "sub_category", "profit")
SalesByState(D, rows) == GroupSum(D, rows, "state", "sales")

KpiNames == {"total_sales", "total_profit", "total_quantity"}
ChartNames == {"sales_over_time", "sales_by_category", "profit_by_sub_category",
               "sales_by_region", "sales_by_segment", "sales_by_state"}

\* The empty branch ending the run with st.stop().
RenderEmptyStops ==
    /\ pc = "kpis"
    /\ df_filtered = {}
    /\ messages' = messages \cup {WarnNoData}
    /\ pc' = "stopped"
    /\ UNCHANGED << source, loaded, df, df_filtered, sel,
                    available_sub_categories, available_cities, computed,
                    kpi, charts, edits >>

\* if df_filtered.empty: st.warning(...) -- then the caption and the sidebar
\* help text; the run ends normally.
RenderEmpty ==
    /\ pc = "kpis"
    /\ df_filtered = {}
    /\ messages' = messages \cup {WarnNoData}
    /\ pc' = "done"
    /\ UNCHANGED << source, loaded, df, df_filtered, sel,
                    available_sub_categories, available_cities, computed,
                    kpi, charts, edits >>

\* else: the three KPIs and the chart inputs, then the caption and the
\* sidebar help text.
RenderDashboard ==
    /\ pc = "kpis"
    /\ df_filtered # {}
    /\ kpi' = [total_sales |-> SumCol(df, df_filtered, "sales"),
               total_profit |-> SumCol(df, df_filtered, "profit"),
               total_quantity |-> SumCol(df, df_filtered, "quantity")]
    /\ \E by_category \in SortValuesDesc(SalesByCategory(df, df_filtered)),
          by_sub_category \in SortValuesDesc(ProfitBySubCategory(df, df_filtered)),
          by_state \in SortValuesDesc(SalesByState(df, df_filtered)) :
          charts' = [sales_over_time |-> SalesOverTime(df, df_filtered),
                     sales_by_category |-> by_category,
                     profit_by_sub_category |-> by_sub_category,
                     sales_by_region |-> GroupSum(df, df_filtered, "region", "sales"),
                     sales_by_segment |-> GroupSum(df, df_filtered, "segment", "sales"),
                     sales_by_state |-> HeadRows(by_state, TopN)]
    /\ computed' = KpiNames \cup ChartNames
    /\ pc' = "done"
    /\ UNCHANGED << source, loaded, df, df_filtered, sel,
                    available_sub_categories, available_cities, messages, edits >>

\* The next widget interaction re-executes the script from the top; the
\* memoized load_data returns what it returned for the unchanged file.
Rerun ==
    /\ pc = "done"
    /\ pc' = "load"
    /\ loaded' = "pending"
    /\ df' = <<>>
    /\ df_filtered' = {}
    /\ sel' = NoSel
    /\ available_sub_categories' = {}
    /\ available_cities' = {}
    /\ messages' = {}
    /\ computed' = {}
    /\ kpi' = NoKpi
    /\ charts' = NoCharts
    /\ edits' = 0
    /\ UNCHANGED source

Next ==
    \/ LoadData
    \/ CheckLoaded
    \/ DateFilter
    \/ RegionFilter
    \/ CategoryFilter
    \/ SubCategoryFilter
    \/ SegmentFilter
    \/ ShipModeFilter
    \/ StateFilter
    \/ CityFilter
    \/ SalesFilter
    \/ QuantityFilter
    \/ DiscountFilter
    \/ ProfitFilter
    \/ RenderEmpty
    \/ RenderDashboard
    \/ Rerun

Spec == Init /\ [][Next]_vars

\* ------------------------------------------ the pipeline as one function
\* df_filtered after the category step, for widget values s
ViewAfterCategory(D, s) ==
    LET dated == Between(D, AllRows(D), "order_date",
                         s.selected_dates[1], s.selected_dates[2])
        regioned == FilterIfSelected(D, dated, "region", s.selected_regions)
    IN FilterIfSelected(D, regioned, "category", s.selected_categories)

\* available_sub_categories for widget values s
SubCategoryOptions(D, s) == Unique(D, ViewAfterCategory(D, s), "sub_category")

\* df_filtered after the state step
ViewAfterState(D, s) ==
    LET subbed == FilterIfSelected(D, ViewAfterCategory(D, s), "sub_category",
                                   s.selected_sub_categories)
        segmented == FilterIfSelected(D, subbed, "segment", s.selected_segments)
        shipped == FilterIfSelected(D, segmented, "ship_mode", s.selected_ship_modes)
    IN FilterIfSelected(D, shipped, "state", s.selected_states)

\* available_cities for widget values s
CityOptions(D, s) == Unique(D, ViewAfterState(D, s), "city")

\* all_categories, all_states: taken from the full frame
CategoryOptions(D, s) == Unique(D, AllRows(D), "category")
StateOptions(D, s) == Unique(D, AllRows(D), "state")

\* df_filtered at the end of the sidebar section
ApplyFilters(D, s) ==
    LET citied == FilterIfSelected(D, ViewAfterState(D, s), "city", s.selected_cities)
        v1 == Between(D, citied, "sales", s.selected_sales[1], s.selected_sales[2])
        v2 == Between(D, v1, "quantity", s.selected_quantity[1], s.selected_quantity[2])
        v3 == Between(D, v2, "discount", s.selected_discount[1], s.selected_discount[2])
    IN Between(D, v3, "profit", s.selected_profit[1], s.selected_profit[2])

\* ================================================================ claims
Finished == pc = "done"

CategoricalFields ==
    {"selected_regions", "selected_categories", "selected_sub_categories",
     "selected_segments", "selected_ship_modes", "selected_states",
     "selected_cities"}

\* The step-by-step reassignment of df_filtered computes ApplyFilters, and the
\* two dependent option sets are the ones the pure operators give.
PipelineAgrees ==
    Finished =>
        /\ df_filtered = ApplyFilters(df, sel)
        /\ available_sub_categories = SubCategoryOptions(df, sel)
        /\ available_cities = CityOptions(df, sel)

\* C1: whenever the selected set of some categorical dimension is empty, the
\* finished run's filtered view has no rows.
C1_EmptySelectionEmptiesView ==
    Finished =>
        ((\E f \in CategoricalFields : sel[f] = {}) => df_filtered = {})

\* Widget values no wider than s: every selected set a subset, every range a
\* slider value inside the corresponding range of s.
SubRanges(col, step, r) ==
    { q \in SliderRanges(ColMin(df, col), ColMax(df, col), step) :
        r[1] <= q[1] /\ q[2] <= r[2] }
NarrowerStates(s) ==
    [selected_dates : DateRanges(s.selected_dates[1], s.selected_dates[2]),
     selected_regions : SUBSET s.selected_regions,
     selected_categories : SUBSET s.selected_categories,
     selected_sub_categories : SUBSET s.selected_sub_categories,
     selected_segments : SUBSET s.selected_segments,
     selected_ship_modes : SUBSET s.selected_ship_modes,
     selected_states : SUBSET s.selected_states,
     selected_cities : SUBSET s.selected_cities,
     selected_sales : SubRanges("sales", SalesStep, s.selected_sales),
     selected_quantity : SubRanges("quantity", QuantityStep, s.selected_quantity),
     selected_discount : SubRanges("discount", DiscountStep, s.selected_discount),
     selected_profit : SubRanges("profit", ProfitStep, s.selected_profit)]

\* C2: the filtered view is a subset of the frame, and every narrower
\* FilterState yields a subset of the filtered view (monotonicity).
C2_Monotone ==
    Finished =>
        /\ df_filtered \subseteq AllRows(df)
        /\ \A s2 \in NarrowerStates(sel) : ApplyFilters(df, s2) \subseteq df_filtered

\* Every widget holds its default: full date range, every option of every
\* multiselect (for sub-category and city the options offered in this run),
\* full numeric ranges.
IdentityState ==
    /\ sel.selected_dates = << ColMin(df, "order_date"), ColMax(df, "order_date") >>
    /\ sel.selected_regions = Unique(df, AllRows(df), "region")
    /\ sel.selected_categories = Unique(df, AllRows(df), "category")
    /\ sel.selected_sub_categories = available_sub_categories
    /\ sel.selected_segments = Unique(df, AllRows(df), "segment")
    /\ sel.selected_ship_modes = Unique(df, AllRows(df), "ship_mode")
    /\ sel.selected_states = Unique(df, AllRows(df), "state")
    /\ sel.selected_cities = available_cities
    /\ sel.selected_sales = << ColMin(df, "sales"), ColMax(df, "sales") >>
    /\ sel.selected_quantity = << ColMin(df, "quantity"), ColMax(df, "quantity") >>
    /\ sel.selected_discount = << ColMin(df, "discount"), ColMax(df, "discount") >>
    /\ sel.selected_profit = << ColMin(df, "profit"), ColMax(df, "profit") >>

\* C3: identity filter law -- with every range at the frame's min/max and
\* every selection equal to its full option set, the filtered view is the
\* whole frame.
C3_IdentityFilter ==
    (Finished /\ IdentityState) => df_filtered = AllRows(df)

C3_Witness ==
    /\ Finished
    /\ IdentityState
    /\ Len(df) = 3
    /\ Cardinality(Unique(df, AllRows(df), "sales")) = 3
    /\ df_filtered = AllRows(df)

\* C4: the sub-category options contain only sub-categories of rows whose
\* category is in the category selection (also when that selection is empty).
C4_SubCategoryOptionsWithinSelection ==
    pc \in {"segments", "ship_modes", "states", "cities", "sales", "quantity",
            "discount", "profit", "kpis", "done"} =>
        available_sub_categories \subseteq
            { df[i].sub_category :
                i \in { j \in AllRows(df) : df[j].category \in sel.selected_categories } }

\* C5: narrowing the category selection narrows the sub-category options,
\* narrowing the state selection narrows the city options, and the category
\* and state options do not depend on the sub-category and city selections.
C5_CascadeNarrows ==
    Finished =>
        /\ \A c2 \in SUBSET sel.selected_categories :
              SubCategoryOptions(df, [sel EXCEPT !.selected_categories = c2])
                  \subseteq available_sub_categories
        /\ \A s2 \in SUBSET sel.selected_states :
              CityOptions(df, [sel EXCEPT !.selected_states = s2])
                  \subseteq available_cities
        /\ \A x \in SUBSET available_sub_categories :
              CategoryOptions(df, [sel EXCEPT !.selected_sub_categories = x])
                  = CategoryOptions(df, sel)
        /\ \A x \in SUBSET available_cities :
              StateOptions(df, [sel EXCEPT !.selected_cities = x])
                  = StateOptions(df, sel)

\* C6: a failed load stops the run with an error shown and no filter or
\* aggregation step run; an empty frame stops it with an informational
\* message and no filter or aggregation step run.
C6_LoadFailureSurfaced ==
    pc = "stopped" =>
        /\ sel = NoSel /\ computed = {}
        /\ loaded = "None" => ErrLoad \in messages
        /\ loaded = "frame" => (Len(df) = 0 /\ WarnEmptyDataset \in messages)

\* C7: a run whose filtered view is empty computes no KPI and no group-by,
\* shows the adjust-your-filters prompt and ends normally (the next input
\* reruns the script); a run whose view is non-empty computes all three KPIs
\* and every group-by.
C7_EmptyViewRecoverable ==
    [][ pc = "kpis" =>
          /\ pc' = "done"
          /\ df_filtered' = df_filtered
          /\ df_filtered = {} => (computed' = {} /\ WarnNoData \in messages')
          /\ df_filtered # {} => (computed' = KpiNames \cup ChartNames
                                  /\ WarnNoData \notin messages') ]_vars

C7_Witness ==
    /\ Finished
    /\ df_filtered = {}
    /\ computed = {}
    /\ WarnNoData \in messages
    /\ ENABLED Rerun

RECURSIVE SumValues(_)
SumValues(table) ==
    IF table = <<>> THEN 0 ELSE table[1].value + SumValues(Tail(table))

\* C8: the per-category sales sums add up to the total_sales KPI, and every
\* row of the view falls in exactly one category group.
C8_CategorySumsAddUp ==
    (Finished /\ df_filtered # {}) =>
        /\ SumValues(charts.sales_by_category) = kpi.total_sales
        /\ \A i \in df_filtered :
              Cardinality({ k \in DOMAIN charts.sales_by_category :
                              charts.sales_by_category[k].key = df[i].category }) = 1

\* Three rows (Furniture 30, Furniture 20, Technology 10), category
\* selection {Furniture}: two rows, total 50, one group.
C8_Witness ==
    /\ Finished
    /\ Len(df) = 3
    /\ sel.selected_categories = {"Furniture"}
    /\ Cardinality(df_filtered) = 2
    /\ kpi.total_sales = 50
    /\ charts.sales_by_category = << [key |-> "Furniture", value |-> 50] >>

\* A row satisfies every constraint of the widget values s.
Satisfies(r, s) ==
    /\ r.order_date >= s.selected_dates[1] /\ r.order_date <= s.selected_dates[2]
    /\ r.region \in s.selected_regions
    /\ r.category \in s.selected_categories
    /\ r.sub_category \in s.selected_sub_categories
    /\ r.segment \in s.selected_segments
    /\ r.ship_mode \in s.selected_ship_modes
    /\ r.state \in s.selected_states
    /\ r.city \in s.selected_cities
    /\ r.sales >= s.selected_sales[1] /\ r.sales <= s.selected_sales[2]
    /\ r.quantity >= s.selected_quantity[1] /\ r.quantity <= s.selected_quantity[2]
    /\ r.discount >= s.selected_discount[1] /\ r.discount <= s.selected_discount[2]
    /\ r.profit >= s.selected_profit[1] /\ r.profit <= s.selected_profit[2]

\* C10: a row is in the filtered view exactly when it satisfies all
\* constraints together (order date in range, member of each of the seven
\* selected sets, each numeric value within its inclusive bounds).
C10_ViewIsConjunction ==
    Finished =>
        \A i \in AllRows(df) : (i \in df_filtered) <=> Satisfies(df[i], sel)

\* ------------------------------------------- the top-20 states chart
\* A frame with NumTopStates states (numbered), one row per state whose sales
\* are 10 * (mult * state mod (NumTopStates + 1)): pairwise distinct when mult
\* is coprime to NumTopStates + 1.  State 1 has a second, larger row.
RECURSIVE Gcd(_, _)
Gcd(a, b) == IF b = 0 THEN a ELSE Gcd(b, a % b)

TopMults == { m \in 1..NumTopStates : Gcd(m, NumTopStates + 1) = 1 }

TopFrame(mult) ==
    [k \in 1..(NumTopStates + 1) |->
        IF k <= NumTopStates
        THEN Row(101, 102, "Standard", "Consumer", "East", k, k,
                 "Furniture", "Chairs",
                 10 * ((mult * k) % (NumTopStates + 1)), 1, 0, 1)
        ELSE Row(101, 102, "Standard", "Consumer", "East", 1, 1,
                 "Furniture", "Chairs", 10 * (NumTopStates + 1), 3, 0, 1)]

\* Widget values when every sidebar control up to the city multiselect is
\* left at its default.
DefaultsThroughCity(D) ==
    [NoSel EXCEPT
        !.selected_dates = << ColMin(D, "order_date"), ColMax(D, "order_date") >>,
        !.selected_regions = Unique(D, AllRows(D), "region"),
        !.selected_categories = Unique(D, AllRows(D), "category"),
        !.selected_sub_categories = Unique(D, AllRows(D), "sub_category"),
        !.selected_segments = Unique(D, AllRows(D), "segment"),
        !.selected_ship_modes = Unique(D, AllRows(D), "ship_mode"),
        !.selected_states = Unique(D, AllRows(D), "state"),
        !.selected_cities = Unique(D, AllRows(D), "city")]

\* The script has run, with defaults, up to the numeric sliders.
InitTop ==
    /\ \E mult \in TopMults :
          /\ source = [kind |-> "csv", rows |-> TopFrame(mult)]
          /\ df = TopFrame(mult)
    /\ loaded = "frame"
    /\ df_filtered = ApplyFilters(df, [DefaultsThroughCity(df) EXCEPT
            !.selected_sales = << ColMin(df, "sales"), ColMax(df, "sales") >>,
            !.selected_quantity = << ColMin(df, "quantity"), ColMax(df, "quantity") >>,
            !.selected_discount = << ColMin(df, "discount"), ColMax(df, "discount") >>,
            !.selected_profit = << ColMin(df, "profit"), ColMax(df, "profit") >>])
    /\ pc = "sales"
    /\ sel = DefaultsThroughCity(df)
    /\ available_sub_categories = Unique(df, AllRows(df), "sub_category")
    /\ available_cities = Unique(df, AllRows(df), "city")
    /\ messages = {}
    /\ computed = {}
    /\ kpi = NoKpi
    /\ charts = NoCharts
    /\ edits = 0

NextTop ==
    \/ SalesFilter
    \/ QuantityFilter
    \/ DiscountFilter
    \/ ProfitFilter
    \/ RenderEmpty
    \/ RenderDashboard

SpecTop == InitTop /\ [][NextTop]_vars

StateSums == SalesByState(df, df_filtered)
DistinctStateSums ==
    \A g \in StateSums : \A h \in StateSums : g # h => g.value # h.value

\* C9: with distinct per-state sales sums, the sales-by-state chart input has
\* min(20, number of states in the view) entries, in descending order of
\* summed sales, and no state left out has a larger sum than a state kept.
C9_TopStates ==
    (Finished /\ df_filtered # {} /\ DistinctStateSums) =>
        LET chart == charts.sales_by_state
            kept == { chart[k] : k \in DOMAIN chart }
        IN /\ Len(chart) = IF Cardinality(StateSums) < TopN
                           THEN Cardinality(StateSums) ELSE TopN
           /\ kept \subseteq StateSums
           /\ Cardinality(kept) = Len(chart)
           /\ \A k \in 1..(Len(chart) - 1) : chart[k].value > chart[k + 1].value
           /\ \A g \in StateSums \ kept : \A e \in kept : g.value <= e.value

C9_Witness ==
    /\ Finished
    /\ DistinctStateSums
    /\ Cardinality(StateSums) > TopN
    /\ Len(charts.sales_by_state) = TopN
    /\ sel.selected_sales # << ColMin(df, "sales"), ColMax(df, "sales") >>

====
